---- MODULE Spec2Model ----
(***************************************************************************)
(* Model of the reconciliation engine of Smart-Reconciliation-Visualizer   *)
(* (src/src/lib/reconcile.ts).                                             *)
(*                                                                         *)
(* A string is a sequence of one-character strings, so that trimming,      *)
(* lower-casing, whitespace collapsing, joining and parsing are computed   *)
(* character by character as the code does.  A CsvRow is a function from   *)
(* column names to strings; a row reference held by a bucket item or a     *)
(* result row is the index of the row in its input array (0 = undefined).  *)
(***************************************************************************)
EXTENDS Integers, Sequences, FiniteSets, TLC

VARIABLES
    leftRows,            \* argument leftRows: CsvRow[]
    rightRows,           \* argument rightRows: CsvRow[]
    config,              \* argument config: ReconcileConfig
    pc,                  \* position of the call: "call", "scan", "residual", "done", "threw"
    rightBuckets,        \* Map<string, BucketItem[]> in insertion order
    duplicateRightKeys,  \* Set<string>
    results,             \* ReconcileRowResult[]
    matched,
    mismatched,
    missingInRight,
    duplicateKey,
    missingInLeft,
    leftIndex,           \* position of the for-of loop over leftRows
    residualBucket,      \* position of the for-of loop over rightBuckets.entries()
    residualItem,        \* position of the inner for-of loop over a bucket
    returned,            \* the value returned to the caller (NoResult before the return)
    phase,               \* the caller's run: "first", "other" or "repeat"
    firstCall,           \* what the caller keeps of its first run (NoResult before it ends)
    leftDataset,         \* the page's leftDataset: CsvDataset | null
    rightDataset,        \* the page's rightDataset: CsvDataset | null
    isWorking,           \* the page's isWorking
    pending              \* the await a load or loadSamples() is suspended at, "none" outside

vars == <<leftRows, rightRows, config, pc, rightBuckets, duplicateRightKeys, results,
          matched, mismatched, missingInRight, duplicateKey, missingInLeft,
          leftIndex, residualBucket, residualItem, returned, phase, firstCall,
          leftDataset, rightDataset, isWorking, pending>>

----------------------------------------------------------------------------
(* Bounds of the model *)

\* the two datasets of a call hold at most MaxRows rows together
MaxRows == 5

----------------------------------------------------------------------------
(* Strings *)

Upper == <<"A","B","C","D","E","F","G","H","I","J","K","L","M",
           "N","O","P","Q","R","S","T","U","V","W","X","Y","Z">>
Lower == <<"a","b","c","d","e","f","g","h","i","j","k","l","m",
           "n","o","p","q","r","s","t","u","v","w","x","y","z">>
Digits == <<"0","1","2","3","4","5","6","7","8","9">>

IsWhitespace(c) == c \in {" ", "\t", "\n", "\r"}
IsDigit(c) == \E k \in 1..10 : Digits[k] = c
DigitValue(c) == (CHOOSE k \in 1..10 : Digits[k] = c) - 1

ToLowerCaseChar(c) ==
    IF \E k \in 1..26 : Upper[k] = c
    THEN Lower[CHOOSE k \in 1..26 : Upper[k] = c]
    ELSE c

ToLowerCase(s) == [k \in 1..Len(s) |-> ToLowerCaseChar(s[k])]

RECURSIVE TrimStart(_)
TrimStart(s) ==
    IF s # <<>> /\ IsWhitespace(Head(s)) THEN TrimStart(Tail(s)) ELSE s

RECURSIVE TrimEnd(_)
TrimEnd(s) ==
    IF s # <<>> /\ IsWhitespace(s[Len(s)]) THEN TrimEnd(SubSeq(s, 1, Len(s) - 1)) ELSE s

Trim(s) == TrimEnd(TrimStart(s))

\* .replace(/\s+/g, ' ')
RECURSIVE CollapseWhitespace(_)
CollapseWhitespace(s) ==
    IF s = <<>> THEN <<>>
    ELSE IF IsWhitespace(Head(s))
         THEN <<" ">> \o CollapseWhitespace(TrimStart(Tail(s)))
         ELSE <<Head(s)>> \o CollapseWhitespace(Tail(s))

\* .replace(/[...]/g, '') for a character class
RemoveChars(s, class) == SelectSeq(s, LAMBDA c : c \notin class)

RECURSIVE Join(_, _)
Join(parts, sep) ==
    IF parts = <<>> THEN <<>>
    ELSE IF Len(parts) = 1 THEN parts[1]
    ELSE parts[1] \o sep \o Join(Tail(parts), sep)

PadStart2(s) == IF Len(s) < 2 THEN <<"0">> \o s ELSE s

AllDigits(s) == \A k \in 1..Len(s) : IsDigit(s[k])

RECURSIVE DigitsValue(_)
DigitsValue(s) ==
    IF s = <<>> THEN 0 ELSE 10 * DigitsValue(SubSeq(s, 1, Len(s) - 1)) + DigitValue(s[Len(s)])

----------------------------------------------------------------------------
(* Rows *)

\* row[c] ?? ''
Field(row, c) == IF c \in DOMAIN row THEN row[c] ELSE <<>>

----------------------------------------------------------------------------
(* Key normalization *)

\* a separator without the spaces around the bar
BareSeparator == <<"|">>

KeySeparator == <<" ", "|", " ">>

\* a normalization that keeps the letter case
TrimAndCollapse(value) == CollapseWhitespace(Trim(value))

normalizeKeyPart(value) == CollapseWhitespace(ToLowerCase(Trim(value)))

\* a composite key that joins only the key parts that are not blank
normalizeKeyOfFilledParts(row, keyColumns) ==
    Join(SelectSeq([k \in 1..Len(keyColumns) |-> normalizeKeyPart(Field(row, keyColumns[k]))],
                   LAMBDA part : part # <<>>),
         KeySeparator)

normalizeKey(row, keyColumns) ==
    Join([k \in 1..Len(keyColumns) |-> normalizeKeyPart(Field(row, keyColumns[k]))],
         KeySeparator)

----------------------------------------------------------------------------
(* Amount parsing.  Amounts are whole numbers: the strings drawn hold       *)
(* digits, commas, whitespace, currency symbols and text, no decimal point. *)

\* /[₹$€£]/ : of the four symbols the dollar sign is the one in the model's alphabet
CurrencySymbols == {"$"}

Null == [null |-> TRUE, value |-> 0]
Some(v) == [null |-> FALSE, value |-> v]

\* Number(cleaned): the empty string is 0, a run of digits its value, text NaN
NumberIsFinite(cleaned) == AllDigits(cleaned)
NumberValue(cleaned) == DigitsValue(cleaned)

parseAmount(value) ==
    LET raw == Trim(value) IN
    IF raw = <<>> THEN Null
    ELSE LET cleaned == RemoveChars(RemoveChars(raw, {",", " ", "\t", "\n", "\r"}),
                                    CurrencySymbols)
         IN IF NumberIsFinite(cleaned) THEN Some(NumberValue(cleaned)) ELSE Null

Abs(x) == IF x < 0 THEN -x ELSE x

----------------------------------------------------------------------------
(* Date normalization.  The date strings covered are the ISO calendar       *)
(* dates, the strings of digits, slashes and dashes, the empty string and   *)
(* text without digits.  An ISO date is read back in a host zone at or east *)
(* of UTC (the first day a Date holds is read in UTC), and the days exist   *)
(* in their month, so no field carries over.                                *)

NullString == [null |-> TRUE, value |-> <<>>]

RECURSIVE NumberToString(_)
NumberToString(n) ==
    IF n < 0 THEN <<"-">> \o NumberToString(-n)
    ELSE IF n < 10 THEN <<Digits[n + 1]>>
    ELSE NumberToString(n \div 10) \o <<Digits[(n % 10) + 1]>>

RECURSIVE Split(_, _)
Split(s, seps) ==
    IF \E k \in 1..Len(s) : s[k] \in seps
    THEN LET k == CHOOSE j \in 1..Len(s) : s[j] \in seps /\ \A h \in 1..(j - 1) : s[h] \notin seps
         IN <<SubSeq(s, 1, k - 1)>> \o Split(SubSeq(s, k + 1, Len(s)), seps)
    ELSE <<s>>

InvalidDate == [valid |-> FALSE, year |-> 0, month |-> 0, date |-> 0]

IsMonth(n) == n \in 1..12
IsDay(n) == n \in 1..31

\* the year the ISO parser reads at the start of raw: a minus sign and exactly six
\* digits, or exactly four digits
SignedYear(raw) ==
    /\ Len(raw) >= 7
    /\ raw[1] = "-"
    /\ AllDigits(SubSeq(raw, 2, 7))
    /\ Len(raw) = 7 \/ ~IsDigit(raw[8])

PlainYear(raw) ==
    /\ Len(raw) >= 4
    /\ AllDigits(SubSeq(raw, 1, 4))
    /\ Len(raw) = 4 \/ ~IsDigit(raw[5])

NoYear == [length |-> 0, year |-> 0]

\* the year the ISO parser reads at the start of raw and the characters it spans,
\* NoYear if raw starts otherwise
ReadYear(raw) ==
    IF SignedYear(raw)
    THEN [length |-> 7, year |-> 0 - DigitsValue(SubSeq(raw, 2, 7))]
    ELSE IF PlainYear(raw)
    THEN [length |-> 4, year |-> DigitsValue(SubSeq(raw, 1, 4))]
    ELSE NoYear

\* the first and the last day a Date holds
MinDate == [year |-> 0 - 271821, month |-> 4, date |-> 20]
MaxDate == [year |-> 275760, month |-> 9, date |-> 13]

NotAfter(a, b) ==
    \/ a.year < b.year
    \/ a.year = b.year /\ a.month < b.month
    \/ a.year = b.year /\ a.month = b.month /\ a.date <= b.date

\* the Date of the fields read, invalid when a field or the day is out of range
DateOf(year, month, date) ==
    IF /\ IsMonth(month)
       /\ IsDay(date)
       /\ NotAfter(MinDate, [year |-> year, month |-> month, date |-> date])
       /\ NotAfter([year |-> year, month |-> month, date |-> date], MaxDate)
    THEN [valid |-> TRUE, year |-> year, month |-> month, date |-> date]
    ELSE InvalidDate

\* the ISO forms after the year y: nothing, "-MM" or "-MM-DD", p their fields
IsoFields(p, y) ==
    IF /\ Len(p) \in 0..2
       /\ \A k \in 1..Len(p) : Len(p[k]) = 2 /\ AllDigits(p[k])
    THEN DateOf(y.year,
                IF Len(p) >= 1 THEN DigitsValue(p[1]) ELSE 1,
                IF Len(p) >= 2 THEN DigitsValue(p[2]) ELSE 1)
    ELSE InvalidDate

IsoRest(rest, y) ==
    IF /\ y.length > 0
       /\ ~(y.length = 7 /\ y.year = 0)
       /\ rest = <<>> \/ rest[1] = "-"
    THEN IsoFields(IF rest = <<>> THEN <<>> ELSE Split(Tail(rest), {"-"}), y)
    ELSE InvalidDate

\* new Date(raw) for the ISO forms "YYYY", "YYYY-MM" and "YYYY-MM-DD", the year of
\* four digits or of a minus sign and six digits that are not all zero: the year is
\* taken as written
IsoDate(raw) == IsoRest(SubSeq(raw, ReadYear(raw).length + 1, Len(raw)), ReadYear(raw))

\* outside the ISO forms the JavaScript date parser reads a year of 0..49 as 20yy and
\* a year of 50..99 as 19yy, whatever the number of digits written
FullYear(year) ==
    IF year \in 0..49 THEN 2000 + year
    ELSE IF year \in 50..99 THEN 1900 + year
    ELSE year

\* the numbers of a string of digits, slashes and dashes, in order, without sign
Numerals(raw) == SelectSeq(Split(raw, {"/", "-"}), LAMBDA part : part # <<>>)

\* the parser skips one dash right after a number and rejects any other dash once
\* it has read a number
SignAfterNumber(raw) ==
    \E k \in 2..Len(raw) :
        /\ raw[k] = "-"
        /\ ~IsDigit(raw[k - 1])
        /\ \E h \in 1..(k - 1) : IsDigit(raw[h])

\* the ISO parser has read a whole calendar date and a dash follows: that dash is
\* not skipped
SignAfterIsoDate(raw, y) ==
    /\ y.length > 0
    /\ Len(raw) > y.length + 6
    /\ raw[y.length + 7] = "-"
    /\ IsoRest(SubSeq(raw, y.length + 1, y.length + 6), y).valid

\* one to three numbers n, a missing one is 1, the first one the signed year y if
\* there is one
Components(n, y) ==
    [k \in 1..3 |-> IF k > Len(n) THEN 1
                    ELSE IF k = 1 /\ y.length = 7 THEN y.year
                    ELSE DigitsValue(n[k])]

\* the first number is the year when it is no day of a month, else the numbers are
\* month, day and year
ComposeDay(comp) ==
    IF IsDay(comp[1])
    THEN DateOf(FullYear(comp[3]), comp[1], comp[2])
    ELSE DateOf(FullYear(comp[1]), comp[2], comp[3])

SlashText(text, y) ==
    IF /\ \A k \in 1..Len(text) : text[k] \in {"/", "-"} \/ IsDigit(text[k])
       /\ ~SignAfterNumber(text)
       /\ Len(Numerals(text)) \in 1..3
    THEN ComposeDay(Components(Numerals(text), y))
    ELSE InvalidDate

SlashFrom(raw, y) ==
    IF y.length = 7 /\ y.year = 0 THEN SlashText(SubSeq(raw, 8, Len(raw)), NoYear)
    ELSE IF SignAfterIsoDate(raw, y) THEN InvalidDate
    ELSE SlashText(raw, y)

\* new Date(raw) for a string of digits, slashes and dashes that is no ISO form.  A
\* signed year of six zeros is dropped and the rest is read as if nothing came
\* before it.
SlashDate(raw) == SlashFrom(raw, ReadYear(raw))

FirstValid(iso, other) == IF iso.valid THEN iso ELSE other

NewDate(raw) == FirstValid(IsoDate(raw), SlashDate(raw))

\* raw.match(/^\s*(\d{1,2})[/-](\d{1,2})[/-](\d{2,4})\s*$/)
FallbackParts(p) ==
    IF /\ Len(p) = 3
       /\ Len(p[1]) \in 1..2 /\ Len(p[2]) \in 1..2 /\ Len(p[3]) \in 2..4
       /\ AllDigits(p[1]) /\ AllDigits(p[2]) /\ AllDigits(p[3])
    THEN p ELSE <<>>

FallbackMatch(raw) == FallbackParts(Split(Trim(raw), {"/", "-"}))

\* `${y}-${m}-${d}` of a valid date
DateYmd(date) ==
    [null |-> FALSE,
     value |-> NumberToString(date.year) \o <<"-">>
               \o PadStart2(NumberToString(date.month)) \o <<"-">>
               \o PadStart2(NumberToString(date.date))]

\* `${yyyy}-${mm}-${dd}` of the fallback's match, null without a match
FallbackYmd(match) ==
    IF match # <<>>
    THEN [null |-> FALSE,
          value |-> (IF Len(match[3]) = 2 THEN <<"2", "0">> \o match[3] ELSE match[3])
                    \o <<"-">> \o PadStart2(match[2]) \o <<"-">> \o PadStart2(match[1])]
    ELSE NullString

YmdOf(raw, date) ==
    IF raw = <<>> THEN NullString
    ELSE IF date.valid THEN DateYmd(date)
    ELSE FallbackYmd(FallbackMatch(raw))

toYmd(value) == YmdOf(Trim(value), NewDate(Trim(value)))

----------------------------------------------------------------------------
(* Inputs drawn *)

Seqs(S, n) == UNION {[1..k -> S] : k \in 0..n}

Date1 == <<"2","0","2","5","-","1","2","-","0","1">>
Date2 == <<"2","0","2","5","-","1","2","-","0","2">>
NotANumber == <<"N","/","A">>

\* Left rows carry no Vendor column; right rows carry a blank one.
LeftPool ==
    { [Inv |-> <<"a">>,           Amount |-> <<"1","0">>,      Date |-> Date1],
      [Inv |-> <<"A"," ">>,       Amount |-> <<"$","1","2">>,  Date |-> Date2],
      [Inv |-> <<"B">>,           Amount |-> NotANumber,       Date |-> <<>>],
      [Inv |-> <<" ">>,           Amount |-> <<"1","0">>,      Date |-> Date1] }

RightPool ==
    { [Inv |-> <<"a">>,  Vendor |-> <<>>,     Amount |-> <<"1","0">>, Date |-> Date1],
      [Inv |-> <<"b">>,  Vendor |-> <<" ">>,  Amount |-> <<"1","2">>, Date |-> NotANumber],
      [Inv |-> <<>>,     Vendor |-> <<>>,     Amount |-> <<"1","0">>, Date |-> Date1] }

\* An undefined amountColumn or dateColumn is the empty name: both are falsy.
Undefined == ""
Truthy(column) == column # ""

DatasetConfig(keyColumns, amountColumn, dateColumn) ==
    [keyColumns |-> keyColumns, amountColumn |-> amountColumn, dateColumn |-> dateColumn]

ReconcileConfig(left, right, amountTolerance) ==
    [left |-> left, right |-> right, amountTolerance |-> amountTolerance]

\* configurations run on every pair of datasets
RunConfigs ==
    { ReconcileConfig(DatasetConfig(<<"Inv">>, "Amount", "Date"),
                      DatasetConfig(<<"Inv">>, "Amount", "Date"), 2),
      ReconcileConfig(DatasetConfig(<<"Inv", "Vendor">>, "Amount", "Date"),
                      DatasetConfig(<<"Inv", "Vendor">>, "Amount", "Date"), 1) }

\* configurations run on the pairs of datasets of at most two rows each
CompareConfigs ==
    { ReconcileConfig(DatasetConfig(<<"Inv">>, "Amount", Undefined),
                      DatasetConfig(<<"Inv">>, "Amount", Undefined), 0),
      ReconcileConfig(DatasetConfig(<<"Inv">>, Undefined, "Date"),
                      DatasetConfig(<<"Inv">>, Undefined, "Date"), 0),
      ReconcileConfig(DatasetConfig(<<"Inv">>, "Amount", Undefined),
                      DatasetConfig(<<"Inv">>, Undefined, "Date"), 0),
      ReconcileConfig(DatasetConfig(<<"Inv", "Vendor">>, Undefined, Undefined),
                      DatasetConfig(<<"Inv">>, Undefined, Undefined), 0) }

\* configurations without key columns, run on the datasets of at most one row
ThrowConfigs ==
    { ReconcileConfig(DatasetConfig(<<>>, "Amount", "Date"),
                      DatasetConfig(<<"Inv">>, "Amount", "Date"), 0),
      ReconcileConfig(DatasetConfig(<<"Inv">>, Undefined, Undefined),
                      DatasetConfig(<<>>, Undefined, Undefined), 0),
      ReconcileConfig(DatasetConfig(<<>>, Undefined, Undefined),
                      DatasetConfig(<<>>, Undefined, Undefined), 0) }

----------------------------------------------------------------------------
(* The bucket map: a Map keeps its keys in insertion order *)

MapHas(map, key) == \E b \in 1..Len(map) : map[b].key = key
MapIndex(map, key) == CHOOSE b \in 1..Len(map) : map[b].key = key
MapGet(map, key) == map[MapIndex(map, key)].list

BucketItem(row) == [row |-> row, used |-> FALSE]

\* an index that puts a new item in front of its bucket
BucketUnshift(map, key, item) ==
    IF MapHas(map, key)
    THEN [map EXCEPT ![MapIndex(map, key)].list = <<item>> \o @]
    ELSE Append(map, [key |-> key, list |-> <<item>>])

\* const list = buckets.get(key) ?? []; list.push(item); buckets.set(key, list)
BucketPush(map, key, item) ==
    IF MapHas(map, key)
    THEN [map EXCEPT ![MapIndex(map, key)].list = Append(@, item)]
    ELSE Append(map, [key |-> key, list |-> <<item>>])

RECURSIVE BuildBucketsUpTo(_, _, _)
BuildBucketsUpTo(rows, keyColumns, n) ==
    IF n = 0 THEN <<>>
    ELSE LET buckets == BuildBucketsUpTo(rows, keyColumns, n - 1)
             key == normalizeKey(rows[n], keyColumns)
         IN IF key = <<>> THEN buckets ELSE BucketPush(buckets, key, BucketItem(n))

buildBuckets(rows, keyColumns) == BuildBucketsUpTo(rows, keyColumns, Len(rows))

\* a set of duplicate keys that leaves out the keys of exactly two rows
KeysOfThreeOrMore(buckets) ==
    {buckets[b].key : b \in {c \in 1..Len(buckets) : Len(buckets[c].list) > 2}}

DuplicateKeysOf(buckets) ==
    {buckets[b].key : b \in {c \in 1..Len(buckets) : Len(buckets[c].list) > 1}}

----------------------------------------------------------------------------
(* Reasons and result rows *)

Reason(text, diff, tolerance, left, right) ==
    [text |-> text, diff |-> diff, tolerance |-> tolerance, left |-> left, right |-> right]

Text(text) == Reason(text, 0, 0, <<>>, <<>>)

RowResult(status, key, leftRow, rightRow, reasons) ==
    [status |-> status, key |-> key, leftRow |-> leftRow, rightRow |-> rightRow,
     reasons |-> reasons]

DuplicateReasons(key, duplicates) ==
    IF key \in duplicates
    THEN <<Text("Duplicate key in right dataset (multiple rows)")>>
    ELSE <<>>

\* a comparison that flags a difference equal to the tolerance
ExceedsOrEqualsTolerance(diff, amountTolerance) == diff >= amountTolerance

ExceedsTolerance(diff, amountTolerance) == diff > amountTolerance

AmountReasons(leftRow, rightRow, cfg) ==
    IF Truthy(cfg.left.amountColumn) /\ Truthy(cfg.right.amountColumn)
    THEN LET leftAmount == parseAmount(Field(leftRow, cfg.left.amountColumn))
             rightAmount == parseAmount(Field(rightRow, cfg.right.amountColumn))
         IN IF leftAmount.null \/ rightAmount.null
            THEN <<Text("Amount missing or unparseable")>>
            ELSE LET diff == Abs(leftAmount.value - rightAmount.value)
                 IN IF ExceedsTolerance(diff, cfg.amountTolerance)
                    THEN <<Reason("Amount differs by", diff, cfg.amountTolerance, <<>>, <<>>)>>
                    ELSE <<>>
    ELSE <<>>

\* a date comparison that is skipped when either date is missing
DateReasonsWhenBothParse(leftRow, rightRow, cfg) ==
    IF Truthy(cfg.left.dateColumn) /\ Truthy(cfg.right.dateColumn)
    THEN LET leftDate == toYmd(Field(leftRow, cfg.left.dateColumn))
             rightDate == toYmd(Field(rightRow, cfg.right.dateColumn))
         IN IF leftDate.null \/ rightDate.null
            THEN <<>>
            ELSE IF leftDate.value # rightDate.value
                 THEN <<Reason("Date differs", 0, 0, leftDate.value, rightDate.value)>>
                 ELSE <<>>
    ELSE <<>>

DateReasons(leftRow, rightRow, cfg) ==
    IF Truthy(cfg.left.dateColumn) /\ Truthy(cfg.right.dateColumn)
    THEN LET leftDate == toYmd(Field(leftRow, cfg.left.dateColumn))
             rightDate == toYmd(Field(rightRow, cfg.right.dateColumn))
         IN IF leftDate.null \/ rightDate.null
            THEN <<Text("Date missing or unparseable")>>
            ELSE IF leftDate.value # rightDate.value
                 THEN <<Reason("Date differs", 0, 0, leftDate.value, rightDate.value)>>
                 ELSE <<>>
    ELSE <<>>

\* a reasons list with the date reason ahead of the amount reason
PairReasonsDateFirst(leftRow, rightRow, key, duplicates, cfg) ==
    DuplicateReasons(key, duplicates) \o DateReasons(leftRow, rightRow, cfg)
        \o AmountReasons(leftRow, rightRow, cfg)

PairReasons(leftRow, rightRow, key, duplicates, cfg) ==
    DuplicateReasons(key, duplicates) \o AmountReasons(leftRow, rightRow, cfg)
        \o DateReasons(leftRow, rightRow, cfg)

PairStatus(reasons) == IF Len(reasons) = 0 THEN "matched" ELSE "mismatched"

----------------------------------------------------------------------------
(* The call reconcileDatasets(leftRows, rightRows, config) *)

NoResult == <<>>

\* useState<CsvDataset | null>(null)
NoDataset == <<>>

Init ==
    /\ \/ /\ config \in RunConfigs
          /\ \E n \in 0..MaxRows :
                /\ leftRows \in [1..n -> LeftPool]
                /\ rightRows \in Seqs(RightPool, MaxRows - n)
       \/ /\ config \in CompareConfigs
          /\ leftRows \in Seqs(LeftPool, 2)
          /\ rightRows \in Seqs(RightPool, 2)
       \/ /\ config \in ThrowConfigs
          /\ leftRows \in Seqs(LeftPool, 1)
          /\ rightRows \in Seqs(RightPool, 1)
    /\ pc = "call"
    /\ rightBuckets = <<>>
    /\ duplicateRightKeys = {}
    /\ results = <<>>
    /\ matched = 0
    /\ mismatched = 0
    /\ missingInRight = 0
    /\ duplicateKey = 0
    /\ missingInLeft = 0
    /\ leftIndex = 1
    /\ residualBucket = 1
    /\ residualItem = 1
    /\ returned = NoResult
    /\ phase = "first"
    /\ firstCall = NoResult
    /\ leftDataset = NoDataset
    /\ rightDataset = NoDataset
    /\ isWorking = FALSE
    /\ pending = "none"

\* a guard that throws only when both sides lack key columns
ConfigErrorWhenBothEmpty(cfg) ==
    Len(cfg.left.keyColumns) = 0 /\ Len(cfg.right.keyColumns) = 0

ConfigError(cfg) == Len(cfg.left.keyColumns) = 0 \/ Len(cfg.right.keyColumns) = 0

\* the loop over leftRows is left when every row has been visited
ScanPc(index) == IF index > Len(leftRows) THEN "residual" ELSE "scan"

inputs == <<leftRows, rightRows, config>>
counters == <<matched, mismatched, missingInRight, duplicateKey, missingInLeft>>
residualCursor == <<residualBucket, residualItem>>
caller == <<phase, firstCall>>
page == <<leftDataset, rightDataset, isWorking, pending>>

\* throw new Error('Select at least one key column for both datasets.')
Throw ==
    /\ pc = "call"
    /\ ConfigError(config)
    /\ pc' = "threw"
    /\ UNCHANGED <<inputs, caller, page, rightBuckets, duplicateRightKeys, results, counters,
                   leftIndex, residualCursor, returned>>

\* a call that reuses the index of the right rows left by an earlier call
CallWithSurvivingBuckets ==
    /\ pc = "call"
    /\ ~ConfigError(config)
    /\ rightBuckets' = IF rightBuckets # <<>> THEN rightBuckets
                       ELSE buildBuckets(rightRows, config.right.keyColumns)
    /\ duplicateRightKeys' = DuplicateKeysOf(rightBuckets')
    /\ results' = <<>>
    /\ matched' = 0
    /\ mismatched' = 0
    /\ missingInRight' = 0
    /\ duplicateKey' = 0
    /\ missingInLeft' = 0
    /\ leftIndex' = 1
    /\ residualBucket' = 1
    /\ residualItem' = 1
    /\ pc' = ScanPc(1)
    /\ UNCHANGED <<inputs, caller, page, returned>>

\* the index of the right rows, the set of duplicate keys, the empty results
Call ==
    /\ pc = "call"
    /\ ~ConfigError(config)
    /\ rightBuckets' = buildBuckets(rightRows, config.right.keyColumns)
    /\ duplicateRightKeys' = DuplicateKeysOf(rightBuckets')
    /\ results' = <<>>
    /\ matched' = 0
    /\ mismatched' = 0
    /\ missingInRight' = 0
    /\ duplicateKey' = 0
    /\ missingInLeft' = 0
    /\ leftIndex' = 1
    /\ residualBucket' = 1
    /\ residualItem' = 1
    /\ pc' = ScanPc(1)
    /\ UNCHANGED <<inputs, caller, page, returned>>

LeftKey == normalizeKey(leftRows[leftIndex], config.left.keyColumns)

\* a lookup that finds only the buckets of several rows
HasSharedBucket(key) == MapHas(rightBuckets, key) /\ Len(MapGet(rightBuckets, key)) > 1

HasBucket(key) == MapHas(rightBuckets, key) /\ Len(MapGet(rightBuckets, key)) # 0

HasCandidate(bucket) == \E j \in 1..Len(bucket) : ~bucket[j].used

\* a lookup that takes the first item of the bucket, used or not
FirstOfBucket(bucket) == 1

\* a lookup that takes the last unused item of the bucket
FindLastCandidate(bucket) ==
    CHOOSE j \in 1..Len(bucket) :
        ~bucket[j].used /\ \A h \in (j + 1)..Len(bucket) : bucket[h].used

\* bucket.find((b) => !b.used)
FindCandidate(bucket) ==
    CHOOSE j \in 1..Len(bucket) : ~bucket[j].used /\ \A h \in 1..(j - 1) : bucket[h].used

\* if (!key) continue
ScanBlankKey ==
    /\ pc = "scan"
    /\ LeftKey = <<>>
    /\ leftIndex' = leftIndex + 1
    /\ pc' = ScanPc(leftIndex')
    /\ UNCHANGED <<inputs, caller, page, rightBuckets, duplicateRightKeys, results, counters,
                   residualCursor, returned>>

ScanMissingInRight ==
    /\ pc = "scan"
    /\ LeftKey # <<>>
    /\ ~HasBucket(LeftKey)
    /\ missingInRight' = missingInRight + 1
    /\ results' = Append(results,
                         RowResult("missing_in_right", LeftKey, leftIndex, 0,
                                   <<Text("No matching key in right dataset")>>))
    /\ leftIndex' = leftIndex + 1
    /\ pc' = ScanPc(leftIndex')
    /\ UNCHANGED <<inputs, caller, page, rightBuckets, duplicateRightKeys, matched, mismatched,
                   duplicateKey, missingInLeft, residualCursor, returned>>

\* a scan that counts the left row of an exhausted bucket and reports no row for it
ScanDuplicateKeyUnreported ==
    /\ pc = "scan"
    /\ LeftKey # <<>>
    /\ HasBucket(LeftKey)
    /\ ~HasCandidate(MapGet(rightBuckets, LeftKey))
    /\ duplicateKey' = duplicateKey + 1
    /\ leftIndex' = leftIndex + 1
    /\ pc' = ScanPc(leftIndex')
    /\ UNCHANGED <<inputs, caller, page, rightBuckets, duplicateRightKeys, results, matched, mismatched,
                   missingInRight, missingInLeft, residualCursor, returned>>

\* a scan that shows the last row of an exhausted bucket
ScanDuplicateKeyLastEntry ==
    /\ pc = "scan"
    /\ LeftKey # <<>>
    /\ HasBucket(LeftKey)
    /\ ~HasCandidate(MapGet(rightBuckets, LeftKey))
    /\ duplicateKey' = duplicateKey + 1
    /\ results' = Append(results,
                         RowResult("duplicate_key", LeftKey, leftIndex,
                                   MapGet(rightBuckets, LeftKey)[Len(MapGet(rightBuckets, LeftKey))].row,
                                   <<Text("Multiple rows share this key in the right dataset")>>))
    /\ leftIndex' = leftIndex + 1
    /\ pc' = ScanPc(leftIndex')
    /\ UNCHANGED <<inputs, caller, page, rightBuckets, duplicateRightKeys, matched, mismatched,
                   missingInRight, missingInLeft, residualCursor, returned>>

ScanDuplicateKey ==
    /\ pc = "scan"
    /\ LeftKey # <<>>
    /\ HasBucket(LeftKey)
    /\ ~HasCandidate(MapGet(rightBuckets, LeftKey))
    /\ duplicateKey' = duplicateKey + 1
    /\ results' = Append(results,
                         RowResult("duplicate_key", LeftKey, leftIndex,
                                   MapGet(rightBuckets, LeftKey)[1].row,
                                   <<Text("Multiple rows share this key in the right dataset")>>))
    /\ leftIndex' = leftIndex + 1
    /\ pc' = ScanPc(leftIndex')
    /\ UNCHANGED <<inputs, caller, page, rightBuckets, duplicateRightKeys, matched, mismatched,
                   missingInRight, missingInLeft, residualCursor, returned>>

\* a scan that pairs the candidate and leaves it unconsumed
ScanConsumeUnmarked ==
    /\ pc = "scan"
    /\ LeftKey # <<>>
    /\ HasBucket(LeftKey)
    /\ HasCandidate(MapGet(rightBuckets, LeftKey))
    /\ LET b == MapIndex(rightBuckets, LeftKey)
           candidate == FindCandidate(rightBuckets[b].list)
           rightRow == rightBuckets[b].list[candidate].row
           reasons == PairReasons(leftRows[leftIndex], rightRows[rightRow], LeftKey,
                                  duplicateRightKeys, config)
       IN /\ matched' = IF Len(reasons) = 0 THEN matched + 1 ELSE matched
          /\ mismatched' = IF Len(reasons) = 0 THEN mismatched ELSE mismatched + 1
          /\ results' = Append(results,
                               RowResult(PairStatus(reasons), LeftKey, leftIndex, rightRow,
                                         reasons))
    /\ leftIndex' = leftIndex + 1
    /\ pc' = ScanPc(leftIndex')
    /\ UNCHANGED <<inputs, caller, page, rightBuckets, duplicateRightKeys, missingInRight, duplicateKey,
                   missingInLeft, residualCursor, returned>>

ScanConsume ==
    /\ pc = "scan"
    /\ LeftKey # <<>>
    /\ HasBucket(LeftKey)
    /\ HasCandidate(MapGet(rightBuckets, LeftKey))
    /\ LET b == MapIndex(rightBuckets, LeftKey)
           candidate == FindCandidate(rightBuckets[b].list)
           rightRow == rightBuckets[b].list[candidate].row
           reasons == PairReasons(leftRows[leftIndex], rightRows[rightRow], LeftKey,
                                  duplicateRightKeys, config)
       IN /\ rightBuckets' = [rightBuckets EXCEPT ![b].list[candidate].used = TRUE]
          /\ matched' = IF Len(reasons) = 0 THEN matched + 1 ELSE matched
          /\ mismatched' = IF Len(reasons) = 0 THEN mismatched ELSE mismatched + 1
          /\ results' = Append(results,
                               RowResult(PairStatus(reasons), LeftKey, leftIndex, rightRow,
                                         reasons))
    /\ leftIndex' = leftIndex + 1
    /\ pc' = ScanPc(leftIndex')
    /\ UNCHANGED <<inputs, caller, page, duplicateRightKeys, missingInRight, duplicateKey, missingInLeft,
                   residualCursor, returned>>

\* the next item of the two nested loops over rightBuckets.entries()
NextResidualBucket == IF residualItem < Len(rightBuckets[residualBucket].list)
                      THEN residualBucket ELSE residualBucket + 1
NextResidualItem == IF residualItem < Len(rightBuckets[residualBucket].list)
                    THEN residualItem + 1 ELSE 1

ResidualItem == rightBuckets[residualBucket].list[residualItem]
ResidualKey == rightBuckets[residualBucket].key

\* a residual scan that reports a consumed item as missing in the left dataset
ResidualUsedReported ==
    /\ pc = "residual"
    /\ residualBucket <= Len(rightBuckets)
    /\ ResidualItem.used
    /\ missingInLeft' = missingInLeft + 1
    /\ results' = Append(results,
                         RowResult("missing_in_left", ResidualKey, 0, ResidualItem.row,
                                   <<Text("No matching key in left dataset")>>))
    /\ residualBucket' = NextResidualBucket
    /\ residualItem' = NextResidualItem
    /\ UNCHANGED <<inputs, caller, page, pc, rightBuckets, duplicateRightKeys, matched, mismatched,
                   missingInRight, duplicateKey, leftIndex, returned>>

\* if (item.used) continue
ResidualUsed ==
    /\ pc = "residual"
    /\ residualBucket <= Len(rightBuckets)
    /\ ResidualItem.used
    /\ residualBucket' = NextResidualBucket
    /\ residualItem' = NextResidualItem
    /\ UNCHANGED <<inputs, caller, page, pc, rightBuckets, duplicateRightKeys, results, counters,
                   leftIndex, returned>>

\* a residual scan whose duplicate branch lacks its continue and also reports the row missing
ResidualDuplicateKeyFallsThrough ==
    /\ pc = "residual"
    /\ residualBucket <= Len(rightBuckets)
    /\ ~ResidualItem.used
    /\ ResidualKey \in duplicateRightKeys
    /\ duplicateKey' = duplicateKey + 1
    /\ missingInLeft' = missingInLeft + 1
    /\ results' = results
                  \o <<RowResult("duplicate_key", ResidualKey, 0, ResidualItem.row,
                                 <<Text("Duplicate key in right dataset (multiple rows)")>>),
                       RowResult("missing_in_left", ResidualKey, 0, ResidualItem.row,
                                 <<Text("No matching key in left dataset")>>)>>
    /\ residualBucket' = NextResidualBucket
    /\ residualItem' = NextResidualItem
    /\ UNCHANGED <<inputs, caller, page, pc, rightBuckets, duplicateRightKeys, matched, mismatched,
                   missingInRight, leftIndex, returned>>

ResidualDuplicateKey ==
    /\ pc = "residual"
    /\ residualBucket <= Len(rightBuckets)
    /\ ~ResidualItem.used
    /\ ResidualKey \in duplicateRightKeys
    /\ duplicateKey' = duplicateKey + 1
    /\ results' = Append(results,
                         RowResult("duplicate_key", ResidualKey, 0, ResidualItem.row,
                                   <<Text("Duplicate key in right dataset (multiple rows)")>>))
    /\ residualBucket' = NextResidualBucket
    /\ residualItem' = NextResidualItem
    /\ UNCHANGED <<inputs, caller, page, pc, rightBuckets, duplicateRightKeys, matched, mismatched,
                   missingInRight, missingInLeft, leftIndex, returned>>

ResidualMissingInLeft ==
    /\ pc = "residual"
    /\ residualBucket <= Len(rightBuckets)
    /\ ~ResidualItem.used
    /\ ResidualKey \notin duplicateRightKeys
    /\ missingInLeft' = missingInLeft + 1
    /\ results' = Append(results,
                         RowResult("missing_in_left", ResidualKey, 0, ResidualItem.row,
                                   <<Text("No matching key in left dataset")>>))
    /\ residualBucket' = NextResidualBucket
    /\ residualItem' = NextResidualItem
    /\ UNCHANGED <<inputs, caller, page, pc, rightBuckets, duplicateRightKeys, matched, mismatched,
                   missingInRight, duplicateKey, leftIndex, returned>>

\* a summary that reports the missing-in-left count as missing in right
SummaryMissingSwapped ==
    [leftCount |-> Len(leftRows), rightCount |-> Len(rightRows), matched |-> matched,
     mismatched |-> mismatched, missingInLeft |-> missingInLeft,
     missingInRight |-> missingInLeft, duplicateKey |-> duplicateKey]

\* a summary whose leftCount and rightCount leave out the rows with an empty key
SummaryOfKeyedRows ==
    [leftCount |-> Cardinality({i \in 1..Len(leftRows) :
                                   normalizeKey(leftRows[i], config.left.keyColumns) # <<>>}),
     rightCount |-> Cardinality({j \in 1..Len(rightRows) :
                                    normalizeKey(rightRows[j], config.right.keyColumns) # <<>>}),
     matched |-> matched, mismatched |-> mismatched, missingInLeft |-> missingInLeft,
     missingInRight |-> missingInRight, duplicateKey |-> duplicateKey]

Summary ==
    [leftCount |-> Len(leftRows), rightCount |-> Len(rightRows), matched |-> matched,
     mismatched |-> mismatched, missingInLeft |-> missingInLeft,
     missingInRight |-> missingInRight, duplicateKey |-> duplicateKey]

\* return { rows: results, summary }
Return ==
    /\ pc = "residual"
    /\ residualBucket > Len(rightBuckets)
    /\ returned' = <<[rows |-> results, summary |-> Summary]>>
    /\ pc' = "done"
    /\ UNCHANGED <<inputs, caller, page, rightBuckets, duplicateRightKeys, results, counters,
                   leftIndex, residualCursor>>

Next ==
    \/ Throw
    \/ Call
    \/ ScanBlankKey
    \/ ScanMissingInRight
    \/ ScanDuplicateKey
    \/ ScanConsume
    \/ ResidualUsed
    \/ ResidualDuplicateKey
    \/ ResidualMissingInLeft
    \/ Return

Spec == Init /\ [][Next]_vars

----------------------------------------------------------------------------
(* Calls on datasets of at most two rows each whose key, amount and date    *)
(* values are spelled in the ways the normalizations tell apart.            *)

ValuePool ==
    { [Inv |-> <<"I","N","V","-","1"," ">>, Vendor |-> <<"x">>, Amount |-> <<"1","0">>, Date |-> <<"2","0","2","5","-","1","2","-","0","1">>],
      [Inv |-> <<"i","n","v","-","1">>, Vendor |-> <<"X">>, Amount |-> <<"$">>, Date |-> <<"0","1","/","1","2","/","2","0","2","5">>],
      [Inv |-> <<"I","n","v"," "," ","1">>, Vendor |-> <<>>, Amount |-> <<",">>, Date |-> <<"1","3","/","1","2","/","2","0","2","5">>],
      [Inv |-> <<" ","i","n","v"," ","1">>, Vendor |-> <<>>, Amount |-> <<"N","/","A">>, Date |-> <<"2","0","2","5","-","1","2","-","1","3">>],
      [Inv |-> <<" ">>, Vendor |-> <<"x">>, Amount |-> <<"1",",","0","0","0">>, Date |-> <<>>],
      [Inv |-> <<"i","n","v","-","2">>, Vendor |-> <<" ">>, Amount |-> <<"1","0">>, Date |-> <<"1","/","1","2","/","2","5">>] }

ValueConfigs ==
    { ReconcileConfig(DatasetConfig(<<"Inv">>, "Amount", "Date"),
                      DatasetConfig(<<"Inv">>, "Amount", "Date"), 0),
      ReconcileConfig(DatasetConfig(<<"Inv", "Vendor">>, "Amount", "Date"),
                      DatasetConfig(<<"Inv", "Vendor">>, "Amount", "Date"), 0),
      ReconcileConfig(DatasetConfig(<<"Inv", "Vendor", "Date">>, "Amount", Undefined),
                      DatasetConfig(<<"Inv", "Vendor", "Date">>, "Amount", Undefined), 0),
      ReconcileConfig(DatasetConfig(<<>>, "Amount", "Date"),
                      DatasetConfig(<<"Inv">>, "Amount", "Date"), 0) }

ValueInit ==
    /\ leftRows \in Seqs(ValuePool, 2)
    /\ rightRows \in Seqs(ValuePool, 2)
    /\ config \in ValueConfigs
    /\ pc = "call"
    /\ rightBuckets = <<>>
    /\ duplicateRightKeys = {}
    /\ results = <<>>
    /\ matched = 0
    /\ mismatched = 0
    /\ missingInRight = 0
    /\ duplicateKey = 0
    /\ missingInLeft = 0
    /\ leftIndex = 1
    /\ residualBucket = 1
    /\ residualItem = 1
    /\ returned = NoResult
    /\ phase = "first"
    /\ firstCall = NoResult
    /\ leftDataset = NoDataset
    /\ rightDataset = NoDataset
    /\ isWorking = FALSE
    /\ pending = "none"

ValueSpec == ValueInit /\ [][Next]_vars

----------------------------------------------------------------------------
(* Calls on datasets of at most two rows each whose key values hold the     *)
(* characters of the key separator, with equal and with different numbers   *)
(* of key columns on the two sides.                                         *)

KeyPool ==
    { [Inv |-> <<"A"," ","|"," ","b">>, Vendor |-> <<"c">>, Amount |-> <<"1","0">>, Date |-> Date1],
      [Inv |-> <<"a">>, Vendor |-> <<"B"," ","|"," ","c">>, Amount |-> <<"1","0">>, Date |-> Date1],
      [Inv |-> <<"a">>, Vendor |-> <<"b">>, Amount |-> <<"1","0">>, Date |-> Date1],
      [Inv |-> <<"a">>, Vendor |-> <<>>, Amount |-> <<"1","0">>, Date |-> Date1],
      [Inv |-> <<" ">>, Vendor |-> <<>>, Amount |-> <<"1","0">>, Date |-> Date1] }

KeyConfigs ==
    { ReconcileConfig(DatasetConfig(<<"Inv">>, "Amount", "Date"),
                      DatasetConfig(<<"Inv">>, "Amount", "Date"), 0),
      ReconcileConfig(DatasetConfig(<<"Inv", "Vendor">>, "Amount", "Date"),
                      DatasetConfig(<<"Inv", "Vendor">>, "Amount", "Date"), 0),
      ReconcileConfig(DatasetConfig(<<"Inv", "Vendor">>, "Amount", "Date"),
                      DatasetConfig(<<"Inv">>, "Amount", "Date"), 0),
      ReconcileConfig(DatasetConfig(<<"Inv", "Vendor">>, Undefined, Undefined),
                      DatasetConfig(<<>>, Undefined, Undefined), 0) }

KeyInit ==
    /\ leftRows \in Seqs(KeyPool, 2)
    /\ rightRows \in Seqs(KeyPool, 2)
    /\ config \in KeyConfigs
    /\ pc = "call"
    /\ rightBuckets = <<>>
    /\ duplicateRightKeys = {}
    /\ results = <<>>
    /\ matched = 0
    /\ mismatched = 0
    /\ missingInRight = 0
    /\ duplicateKey = 0
    /\ missingInLeft = 0
    /\ leftIndex = 1
    /\ residualBucket = 1
    /\ residualItem = 1
    /\ returned = NoResult
    /\ phase = "first"
    /\ firstCall = NoResult
    /\ leftDataset = NoDataset
    /\ rightDataset = NoDataset
    /\ isWorking = FALSE
    /\ pending = "none"

KeySpec == KeyInit /\ [][Next]_vars

----------------------------------------------------------------------------
(* A caller that runs the reconciliation more than once: the first run, any *)
(* other run, then the first run's datasets and configuration again.  What  *)
(* a finished call left in its locals is kept in the state, so that a call  *)
(* that failed to start from fresh locals would show.                       *)

RepeatLeft == Seqs({row \in LeftPool : row.Inv \in {<<"a">>, <<" ">>}}, 2)
RepeatRight == Seqs({row \in RightPool : row.Inv # <<>>}, 2)
RepeatConfigs == {cfg \in RunConfigs \cup ThrowConfigs : Len(cfg.right.keyColumns) = 1}

RepeatInit ==
    /\ leftRows \in RepeatLeft
    /\ rightRows \in RepeatRight
    /\ config \in RepeatConfigs
    /\ pc = "call"
    /\ rightBuckets = <<>>
    /\ duplicateRightKeys = {}
    /\ results = <<>>
    /\ matched = 0
    /\ mismatched = 0
    /\ missingInRight = 0
    /\ duplicateKey = 0
    /\ missingInLeft = 0
    /\ leftIndex = 1
    /\ residualBucket = 1
    /\ residualItem = 1
    /\ returned = NoResult
    /\ phase = "first"
    /\ firstCall = NoResult
    /\ leftDataset = NoDataset
    /\ rightDataset = NoDataset
    /\ isWorking = FALSE
    /\ pending = "none"

Ended == pc \in {"done", "threw"}

\* the arguments and the outcome of the call that has just ended
Outcome ==
    <<[leftRows |-> leftRows, rightRows |-> rightRows, config |-> config,
       pc |-> pc, returned |-> returned]>>

locals == <<rightBuckets, duplicateRightKeys, results, counters, leftIndex, residualCursor>>

\* reconcileDatasets(leftDataset.rows, rightDataset.rows, config) on other datasets
StartOther ==
    /\ Ended
    /\ phase = "first"
    /\ firstCall' = Outcome
    /\ phase' = "other"
    /\ leftRows' \in RepeatLeft
    /\ rightRows' \in RepeatRight
    /\ config' \in RepeatConfigs
    /\ pc' = "call"
    /\ returned' = NoResult
    /\ UNCHANGED <<locals, page>>

\* reconcileDatasets(...) again on the datasets and configuration of the first run
StartRepeat ==
    /\ Ended
    /\ phase = "other"
    /\ phase' = "repeat"
    /\ leftRows' = firstCall[1].leftRows
    /\ rightRows' = firstCall[1].rightRows
    /\ config' = firstCall[1].config
    /\ pc' = "call"
    /\ returned' = NoResult
    /\ UNCHANGED <<locals, firstCall, page>>

RepeatNext ==
    \/ Next
    \/ StartOther
    \/ StartRepeat

RepeatSpec == RepeatInit /\ [][RepeatNext]_vars

----------------------------------------------------------------------------
(* The page (App.tsx): its datasets, its configuration, the loads, the key  *)
(* column checkboxes and the Run reconciliation button.  A load is one step *)
(* taken when the parse has completed; the engine's call runs to its end    *)
(* before the page handles another event.                                   *)

CsvDataset(headers, rows) == <<[headers |-> headers, rows |-> rows]>>

\* the characters of the header names of the datasets loaded
HeaderChars(header) ==
    CASE header = "Inv" -> <<"I","n","v">>
      [] header = "Amount" -> <<"A","m","o","u","n","t">>

\* the datasets a file, a pasted text or a sample parses to; each has one named
\* column (headers keeps the names that are not blank)
UiDatasets ==
    { CsvDataset(<<"Inv">>,
                 <<[Inv |-> <<"1","0">>], [Inv |-> <<"1","0"," ">>]>>),
      CsvDataset(<<"Amount">>,
                 <<[Amount |-> <<"1","0">>]>>) }

KeyCandidates ==
    <<<<"i","n","v","o","i","c","e">>,
    <<"i","n","v","o","i","c","e"," ","n","o">>,
    <<"i","n","v","o","i","c","e","_","n","o">>,
    <<"i","n","v">>,
    <<"r","e","f","e","r","e","n","c","e">>,
    <<"r","e","f">>,
    <<"i","d">>>>
AmountCandidates ==
    <<<<"a","m","o","u","n","t">>,
    <<"t","o","t","a","l">>,
    <<"v","a","l","u","e">>,
    <<"n","e","t">>,
    <<"g","r","o","s","s">>>>
DateCandidates ==
    <<<<"d","a","t","e">>,
    <<"i","n","v","o","i","c","e"," ","d","a","t","e">>,
    <<"t","x","n"," ","d","a","t","e">>,
    <<"t","r","a","n","s","a","c","t","i","o","n"," ","d","a","t","e">>>>

\* header.trim().toLowerCase().replace(/\s+/g, ' ')
normalizeHeader(header) == CollapseWhitespace(ToLowerCase(Trim(header)))

\* s.includes(c)
Includes(s, c) == \E k \in 0..(Len(s) - Len(c)) : SubSeq(s, k + 1, k + Len(c)) = c

\* normalized.find(pred): the position of the first header that satisfies it, 0 if none
FirstOf(positions) ==
    IF positions = {} THEN 0 ELSE CHOOSE k \in positions : \A h \in positions : k <= h

RECURSIVE guessColumn(_, _)
guessColumn(headers, candidates) ==
    IF candidates = <<>> THEN Undefined
    ELSE LET c == normalizeHeader(Head(candidates))
             exact == FirstOf({k \in 1..Len(headers) :
                                  normalizeHeader(HeaderChars(headers[k])) = c})
             partial == FirstOf({k \in 1..Len(headers) :
                                    Includes(normalizeHeader(HeaderChars(headers[k])), c)})
             hit == IF exact # 0 THEN exact ELSE partial
         IN IF hit # 0 THEN headers[hit] ELSE guessColumn(headers, Tail(candidates))

\* the three guesses of applyGuesses for the headers of each dataset loaded
Guesses ==
    [headers \in {dataset[1].headers : dataset \in UiDatasets} |->
        [keyGuess |-> guessColumn(headers, KeyCandidates),
         amountGuess |-> guessColumn(headers, AmountCandidates),
         dateGuess |-> guessColumn(headers, DateCandidates)]]

\* the side's DatasetConfig after applyGuesses(side, headers)
GuessedConfig(targetPrev, headers) ==
    LET keyGuess == Guesses[headers].keyGuess
        amountGuess == Guesses[headers].amountGuess
        dateGuess == Guesses[headers].dateGuess
    IN DatasetConfig(
           IF Truthy(keyGuess) /\ Len(targetPrev.keyColumns) = 0
           THEN <<keyGuess>> ELSE targetPrev.keyColumns,
           IF Truthy(amountGuess) /\ ~Truthy(targetPrev.amountColumn)
           THEN amountGuess ELSE targetPrev.amountColumn,
           IF Truthy(dateGuess) /\ ~Truthy(targetPrev.dateColumn)
           THEN dateGuess ELSE targetPrev.dateColumn)

applyGuesses(cfg, side, headers) ==
    IF side = "left"
    THEN [cfg EXCEPT !.left = GuessedConfig(cfg.left, headers)]
    ELSE [cfg EXCEPT !.right = GuessedConfig(cfg.right, headers)]

\* the page handles an event only between calls of the engine
PageIdle == pc \in {"idle", "done", "threw"}

\* disabled={isWorking}: the buttons and the file inputs; no click is handled while
\* a continuation of loadSamples() is due within the task
ButtonsEnabled == PageIdle /\ ~isWorking /\ pending = "none"

\* the checkboxes, the pickers and the tolerance input are never disabled; a file is
\* read and the samples are fetched across tasks, the sample texts parse within one
InputsEnabled == PageIdle /\ pending \in {"none", "left", "right", "fetch"}

\* the values typed into the amount tolerance input
Tolerances == {0, 2}

\* the headers a picker of the side lists: leftHeaders, rightHeaders
HeadersShown(dataset) ==
    IF dataset = NoDataset THEN {}
    ELSE {dataset[1].headers[k] : k \in 1..Len(dataset[1].headers)}

UiInit ==
    /\ leftDataset = NoDataset
    /\ rightDataset = NoDataset
    /\ isWorking = FALSE
    /\ pending = "none"
    /\ config = ReconcileConfig(DatasetConfig(<<>>, Undefined, Undefined),
                                DatasetConfig(<<>>, Undefined, Undefined), 0)
    /\ leftRows = <<>>
    /\ rightRows = <<>>
    /\ pc = "idle"
    /\ rightBuckets = <<>>
    /\ duplicateRightKeys = {}
    /\ results = <<>>
    /\ matched = 0
    /\ mismatched = 0
    /\ missingInRight = 0
    /\ duplicateKey = 0
    /\ missingInLeft = 0
    /\ leftIndex = 1
    /\ residualBucket = 1
    /\ residualItem = 1
    /\ returned = NoResult
    /\ phase = "first"
    /\ firstCall = NoResult

\* the arguments and the locals of an ended call no longer exist
ForgetCall ==
    /\ leftRows' = <<>>
    /\ rightRows' = <<>>
    /\ rightBuckets' = <<>>
    /\ duplicateRightKeys' = {}
    /\ results' = <<>>
    /\ matched' = 0
    /\ mismatched' = 0
    /\ missingInRight' = 0
    /\ duplicateKey' = 0
    /\ missingInLeft' = 0
    /\ leftIndex' = 1
    /\ residualBucket' = 1
    /\ residualItem' = 1

\* loadFromFile(side, file) and loadFromText(side, text) up to the await of the parse:
\* setError(null), setIsWorking(true)
StartLoad ==
    /\ ButtonsEnabled
    /\ isWorking' = TRUE
    /\ \E side \in {"left", "right"} : pending' = side
    /\ ForgetCall
    /\ UNCHANGED <<config, pc, returned, caller, leftDataset, rightDataset>>

\* the load of a side after the await: the dataset is set, the guesses applied and
\* the result reset, or the parse has failed and the error is caught
Loaded(side) ==
    \/ /\ \E dataset \in UiDatasets :
              IF side = "left"
              THEN /\ leftDataset' = dataset
                   /\ config' = applyGuesses(config, "left", dataset[1].headers)
                   /\ UNCHANGED rightDataset
              ELSE /\ rightDataset' = dataset
                   /\ config' = applyGuesses(config, "right", dataset[1].headers)
                   /\ UNCHANGED leftDataset
       /\ returned' = NoResult
       /\ pc' = "idle"
    \/ UNCHANGED <<leftDataset, rightDataset, config, returned, pc>>

\* loadFromFile(side, file) and loadFromText(side, text) from the await of the parse
\* to the end: finally setIsWorking(false)
LoadDataset ==
    /\ PageIdle
    /\ pending \in {"left", "right"}
    /\ Loaded(pending)
    /\ isWorking' = FALSE
    /\ pending' = "none"
    /\ ForgetCall
    /\ UNCHANGED caller

\* loadSamples() up to the await of the two fetches: setError(null), setIsWorking(true)
loadSamples ==
    /\ ButtonsEnabled
    /\ isWorking' = TRUE
    /\ pending' = "fetch"
    /\ ForgetCall
    /\ UNCHANGED <<config, pc, returned, caller, leftDataset, rightDataset>>

\* the fetches have ended: loadFromText('left', purchases) runs up to its await, or
\* a fetch has failed and loadSamples() ends with setIsWorking(false)
SamplesFetched ==
    /\ PageIdle
    /\ pending = "fetch"
    /\ \/ isWorking' = TRUE /\ pending' = "samplesLeft"
       \/ isWorking' = FALSE /\ pending' = "none"
    /\ ForgetCall
    /\ UNCHANGED <<config, pc, returned, caller, leftDataset, rightDataset>>

\* await loadFromText('left', purchases) from the await of the parse to its end
SamplesLoadLeft ==
    /\ PageIdle
    /\ pending = "samplesLeft"
    /\ Loaded("left")
    /\ isWorking' = FALSE
    /\ pending' = "samplesBetween"
    /\ ForgetCall
    /\ UNCHANGED caller

\* loadFromText('right', sales) up to the await of the parse
SamplesStartRight ==
    /\ PageIdle
    /\ pending = "samplesBetween"
    /\ isWorking' = TRUE
    /\ pending' = "samplesRight"
    /\ ForgetCall
    /\ UNCHANGED <<config, pc, returned, caller, leftDataset, rightDataset>>

\* await loadFromText('right', sales) from the await of the parse to its end
SamplesLoadRight ==
    /\ PageIdle
    /\ pending = "samplesRight"
    /\ Loaded("right")
    /\ isWorking' = FALSE
    /\ pending' = "samplesEnd"
    /\ ForgetCall
    /\ UNCHANGED caller

\* the end of loadSamples(): finally setIsWorking(false)
SamplesEnd ==
    /\ PageIdle
    /\ pending = "samplesEnd"
    /\ isWorking' = FALSE
    /\ pending' = "none"
    /\ ForgetCall
    /\ UNCHANGED <<config, pc, returned, caller, leftDataset, rightDataset>>

\* e.target.checked ? [...value, h] : value.filter((x) => x !== h)
Toggled(value, h) ==
    IF \E k \in 1..Len(value) : value[k] = h
    THEN SelectSeq(value, LAMBDA x : x # h)
    ELSE Append(value, h)

\* a checkbox of a KeyColumnsPicker, one per header of the side's dataset
ToggleKeyColumn ==
    /\ InputsEnabled
    /\ \/ \E h \in HeadersShown(leftDataset) :
              config' = [config EXCEPT !.left.keyColumns = Toggled(@, h)]
       \/ \E h \in HeadersShown(rightDataset) :
              config' = [config EXCEPT !.right.keyColumns = Toggled(@, h)]
    /\ ForgetCall
    /\ UNCHANGED <<pc, returned, caller, page>>

\* the ColumnPicker of a side's amount column: a header of the side's dataset, or
\* the empty option, which gives undefined
SelectAmountColumn ==
    /\ InputsEnabled
    /\ \/ \E next \in HeadersShown(leftDataset) \cup {Undefined} :
              config' = [config EXCEPT !.left.amountColumn = next]
       \/ \E next \in HeadersShown(rightDataset) \cup {Undefined} :
              config' = [config EXCEPT !.right.amountColumn = next]
    /\ ForgetCall
    /\ UNCHANGED <<pc, returned, caller, page>>

\* the ColumnPicker of a side's date column
SelectDateColumn ==
    /\ InputsEnabled
    /\ \/ \E next \in HeadersShown(leftDataset) \cup {Undefined} :
              config' = [config EXCEPT !.left.dateColumn = next]
       \/ \E next \in HeadersShown(rightDataset) \cup {Undefined} :
              config' = [config EXCEPT !.right.dateColumn = next]
    /\ ForgetCall
    /\ UNCHANGED <<pc, returned, caller, page>>

\* the amount tolerance input: amountTolerance: Number(e.target.value)
SetAmountTolerance ==
    /\ InputsEnabled
    /\ \E tolerance \in Tolerances : config' = [config EXCEPT !.amountTolerance = tolerance]
    /\ ForgetCall
    /\ UNCHANGED <<pc, returned, caller, page>>

\* runReconciliation(): reconcileDatasets(leftDataset.rows, rightDataset.rows, config);
\* the result of an earlier run stays until setResult(out)
runReconciliation ==
    /\ ButtonsEnabled
    /\ leftDataset # NoDataset
    /\ rightDataset # NoDataset
    /\ leftRows' = leftDataset[1].rows
    /\ rightRows' = rightDataset[1].rows
    /\ pc' = "call"
    /\ UNCHANGED <<config, locals, returned, caller, page>>

UiNext ==
    \/ StartLoad
    \/ LoadDataset
    \/ loadSamples
    \/ SamplesFetched
    \/ SamplesLoadLeft
    \/ SamplesStartRight
    \/ SamplesLoadRight
    \/ SamplesEnd
    \/ ToggleKeyColumn
    \/ SelectAmountColumn
    \/ SelectDateColumn
    \/ SetAmountTolerance
    \/ runReconciliation
    \/ Next

UiSpec == UiInit /\ [][UiNext]_vars

----------------------------------------------------------------------------
(* The filter chips the page shows for a returned result *)

Chip(key, count) == [key |-> key, count |-> count]

\* const filterChips = useMemo(() => ..., [result])
filterChips ==
    IF returned = NoResult THEN <<>>
    ELSE <<Chip("all", Len(returned[1].rows)),
           Chip("matched", returned[1].summary.matched),
           Chip("mismatched", returned[1].summary.mismatched),
           Chip("missing_in_left", returned[1].summary.missingInLeft),
           Chip("missing_in_right", returned[1].summary.missingInRight),
           Chip("duplicate_key", returned[1].summary.duplicateKey)>>

----------------------------------------------------------------------------
(* Vocabulary of the properties *)

Done == pc = "done"

Rows == IF returned = NoResult THEN <<>> ELSE returned[1].rows

LeftRowKey(i) == normalizeKey(leftRows[i], config.left.keyColumns)
RightRowKey(j) == normalizeKey(rightRows[j], config.right.keyColumns)

NonBlankLeft == {i \in 1..Len(leftRows) : LeftRowKey(i) # <<>>}
NonBlankRight == {j \in 1..Len(rightRows) : RightRowKey(j) # <<>>}

RowsOfLeft(i) == {r \in 1..Len(Rows) : Rows[r].leftRow = i}
RowsOfRight(j) == {r \in 1..Len(Rows) : Rows[r].rightRow = j}

Paired(row) == row.status \in {"matched", "mismatched"}
LeftBearingDuplicate(row) == row.status = "duplicate_key" /\ row.leftRow # 0
ResidualDuplicate(row) == row.status = "duplicate_key" /\ row.leftRow = 0

RightRowsWithKey(key) == {j \in 1..Len(rightRows) : RightRowKey(j) = key}

HasReason(row, text) == \E k \in 1..Len(row.reasons) : row.reasons[k].text = text

AllKeyPartsBlank(row, keyColumns) ==
    \A k \in 1..Len(keyColumns) : Trim(Field(row, keyColumns[k])) = <<>>

----------------------------------------------------------------------------
(* C1: when the call returns, every left row with a non-empty composite key *)
(* is the leftRow of exactly one result row, and that row's status is       *)
(* matched, mismatched, missing_in_right or duplicate_key.                  *)
C1_LeftPartition ==
    Done =>
        \A i \in NonBlankLeft :
            /\ Cardinality(RowsOfLeft(i)) = 1
            /\ \A r \in RowsOfLeft(i) :
                   Rows[r].status \in {"matched", "mismatched", "missing_in_right",
                                       "duplicate_key"}

C1_Witness ==
    /\ Done
    /\ Cardinality(NonBlankLeft) >= 3
    /\ \E r \in 1..Len(Rows) : LeftBearingDuplicate(Rows[r])
    /\ \E r \in 1..Len(Rows) : Paired(Rows[r])
    /\ \E r \in 1..Len(Rows) : Rows[r].status = "missing_in_right"

(* C2 as stated: when the call returns, every right row with a non-empty    *)
(* composite key is the rightRow of exactly one result row.                 *)
C2_RightRowInOneResultRow ==
    Done => \A j \in NonBlankRight : Cardinality(RowsOfRight(j)) = 1

(* C2 amended: every right row with a non-empty composite key is the        *)
(* rightRow of exactly one result row among the matched, mismatched and     *)
(* missing_in_left rows and the duplicate_key rows without a left row; any  *)
(* further result row naming it is a duplicate_key row carrying a left row, *)
(* and names the first right row of that key.                               *)
C2_RightPartition ==
    Done =>
        \A j \in NonBlankRight :
            /\ Cardinality({r \in RowsOfRight(j) : ~LeftBearingDuplicate(Rows[r])}) = 1
            /\ \A r \in RowsOfRight(j) :
                   /\ Rows[r].status \in {"matched", "mismatched", "missing_in_left",
                                          "duplicate_key"}
                   /\ LeftBearingDuplicate(Rows[r]) =>
                          \A h \in RightRowsWithKey(RightRowKey(j)) : j <= h

C2_Witness ==
    /\ Done
    /\ \E j \in NonBlankRight :
          /\ Cardinality(RowsOfRight(j)) >= 2
          /\ \E r \in RowsOfRight(j) : Paired(Rows[r])
    /\ \E r \in 1..Len(Rows) : ResidualDuplicate(Rows[r])

(* C3 as stated: summary.matched + summary.mismatched +                     *)
(* summary.missingInRight is the number of left rows with a non-empty key.  *)
C3_LeftCountWithoutDuplicates ==
    Done =>
        LET summary == returned[1].summary IN
        summary.matched + summary.mismatched + summary.missingInRight
            = Cardinality(NonBlankLeft)

(* C3 amended: summary.matched + summary.mismatched +                       *)
(* summary.missingInRight + the number of duplicate_key result rows that    *)
(* carry a left row is the number of left rows with a non-empty key.        *)
C3_LeftCount ==
    Done =>
        LET summary == returned[1].summary IN
        summary.matched + summary.mismatched + summary.missingInRight
            + Cardinality({r \in 1..Len(Rows) : LeftBearingDuplicate(Rows[r])})
            = Cardinality(NonBlankLeft)

C3_Witness ==
    /\ Done
    /\ \E r \in 1..Len(Rows) : LeftBearingDuplicate(Rows[r])
    /\ returned[1].summary.matched > 0
    /\ returned[1].summary.missingInRight > 0

(* C4: the number of right rows with a non-empty key is                     *)
(* summary.missingInLeft + summary.matched + summary.mismatched + the       *)
(* number of duplicate_key result rows that carry no left row.              *)
C4_RightCount ==
    Done =>
        LET summary == returned[1].summary IN
        Cardinality(NonBlankRight)
            = summary.missingInLeft + summary.matched + summary.mismatched
              + Cardinality({r \in 1..Len(Rows) : ResidualDuplicate(Rows[r])})

C4_Witness ==
    /\ Done
    /\ returned[1].summary.missingInLeft > 0
    /\ returned[1].summary.mismatched > 0
    /\ \E r \in 1..Len(Rows) : ResidualDuplicate(Rows[r])
    /\ Cardinality(NonBlankRight) < Len(rightRows)

(* C5: the call throws exactly when the left or the right keyColumns list   *)
(* is empty, and a call that threw has built no result row and returned     *)
(* nothing; every other call, whatever its keys, amounts and dates hold,    *)
(* goes into the scan, never reaches the throw, and the value it returns at *)
(* the end is a result.                                                     *)
NoKeyColumns == config.left.keyColumns = <<>> \/ config.right.keyColumns = <<>>

C5_ThrowsIffNoKeyColumns ==
    /\ pc = "threw" => NoKeyColumns /\ returned = NoResult /\ results = <<>>
    /\ pc \in {"scan", "residual", "done"} => ~NoKeyColumns
    /\ Done <=> returned # NoResult
    /\ Done => returned[1].summary.leftCount = Len(leftRows)
                /\ returned[1].summary.rightCount = Len(rightRows)

C5_Witness ==
    /\ pc = "threw"
    /\ config.left.keyColumns # <<>>
    /\ config.right.keyColumns = <<>>
    /\ Len(leftRows) > 0

(* C6 as stated: a row, on either side, whose configured key columns are    *)
(* all blank or absent is in no bucket and in no result row, for one key    *)
(* column and for several.                                                  *)
C6_BlankRowsSkipped ==
    /\ \A i \in 1..Len(leftRows) :
           AllKeyPartsBlank(leftRows[i], config.left.keyColumns) =>
               \A r \in 1..Len(results) : results[r].leftRow # i
    /\ \A j \in 1..Len(rightRows) :
           AllKeyPartsBlank(rightRows[j], config.right.keyColumns) =>
               /\ \A r \in 1..Len(results) : results[r].rightRow # j
               /\ \A b \in 1..Len(rightBuckets) :
                      \A k \in 1..Len(rightBuckets[b].list) :
                          rightBuckets[b].list[k].row # j

(* C7: for a result row that pairs a left row with a consumed right row,    *)
(* when both sides declare an amount column and both amounts parse, the     *)
(* reason "Amount differs by" is present exactly when the absolute          *)
(* difference is strictly greater than amountTolerance.                     *)
C7_AmountToleranceStrict ==
    \A r \in 1..Len(results) :
        Paired(results[r]) /\ config.left.amountColumn # "" /\ config.right.amountColumn # "" =>
            LET leftAmount == parseAmount(Field(leftRows[results[r].leftRow],
                                                config.left.amountColumn))
                rightAmount == parseAmount(Field(rightRows[results[r].rightRow],
                                                 config.right.amountColumn))
            IN ~leftAmount.null /\ ~rightAmount.null =>
                   (HasReason(results[r], "Amount differs by")
                        <=> (leftAmount.value - rightAmount.value > config.amountTolerance
                             \/ rightAmount.value - leftAmount.value > config.amountTolerance))

C7_Witness ==
    \E r \in 1..Len(results) :
        /\ Paired(results[r])
        /\ config.left.amountColumn # "" /\ config.right.amountColumn # ""
        /\ config.amountTolerance > 0
        /\ ~parseAmount(Field(leftRows[results[r].leftRow], config.left.amountColumn)).null
        /\ ~parseAmount(Field(rightRows[results[r].rightRow], config.right.amountColumn)).null
        /\ parseAmount(Field(leftRows[results[r].leftRow], config.left.amountColumn)).value
             - parseAmount(Field(rightRows[results[r].rightRow],
                                 config.right.amountColumn)).value
             = config.amountTolerance
        /\ ~HasReason(results[r], "Amount differs by")

\* the enabled comparisons of a pair of rows pass
AmountPasses(leftRow, rightRow) ==
    config.left.amountColumn # "" /\ config.right.amountColumn # "" =>
        LET leftAmount == parseAmount(Field(leftRow, config.left.amountColumn))
            rightAmount == parseAmount(Field(rightRow, config.right.amountColumn))
        IN /\ ~leftAmount.null /\ ~rightAmount.null
           /\ leftAmount.value - rightAmount.value <= config.amountTolerance
           /\ rightAmount.value - leftAmount.value <= config.amountTolerance

DatePasses(leftRow, rightRow) ==
    config.left.dateColumn # "" /\ config.right.dateColumn # "" =>
        LET leftDate == toYmd(Field(leftRow, config.left.dateColumn))
            rightDate == toYmd(Field(rightRow, config.right.dateColumn))
        IN ~leftDate.null /\ ~rightDate.null /\ leftDate.value = rightDate.value

(* C8 as stated: a result row that pairs a left row with a consumed right   *)
(* row is matched when every enabled comparison passes and mismatched only  *)
(* when an amount or date comparison fails, also for a key that several     *)
(* right rows carry.                                                        *)
C8_MatchedIffComparisonsPass ==
    \A r \in 1..Len(results) :
        Paired(results[r]) =>
            (results[r].status = "matched"
                 <=> /\ AmountPasses(leftRows[results[r].leftRow],
                                     rightRows[results[r].rightRow])
                     /\ DatePasses(leftRows[results[r].leftRow],
                                   rightRows[results[r].rightRow]))

(* C9 as stated: every duplicate_key result row has a key that more than    *)
(* one right row carries.                                                   *)
C9_DuplicateKeyMeansSeveralRightRows ==
    \A r \in 1..Len(results) :
        results[r].status = "duplicate_key" =>
            Cardinality(RightRowsWithKey(results[r].key)) > 1

\* the indexes of the left rows with a non-empty key, in input order
NonBlankLeftInOrder == SelectSeq([i \in 1..Len(leftRows) |-> i], LAMBDA i : i \in NonBlankLeft)

FirstRightRowWithKey(key) ==
    CHOOSE j \in RightRowsWithKey(key) : \A h \in RightRowsWithKey(key) : j <= h

(* C10: the returned rows are first the results of the left scan, one per   *)
(* left row with a non-empty key and in the order of the left input, then   *)
(* the residual right rows, ordered by the first occurrence of their key in *)
(* the right input and, within a key, by their order in the right input.    *)
C10_ResultOrder ==
    Done =>
        LET n == Len(NonBlankLeftInOrder) IN
        /\ Len(Rows) >= n
        /\ \A r \in 1..n : Rows[r].leftRow = NonBlankLeftInOrder[r]
        /\ \A r \in (n + 1)..Len(Rows) :
               /\ Rows[r].leftRow = 0
               /\ Rows[r].rightRow \in NonBlankRight
               /\ Rows[r].key = RightRowKey(Rows[r].rightRow)
        /\ \A p, q \in (n + 1)..Len(Rows) :
               p < q =>
                   \/ FirstRightRowWithKey(Rows[p].key) < FirstRightRowWithKey(Rows[q].key)
                   \/ /\ Rows[p].key = Rows[q].key
                      /\ Rows[p].rightRow < Rows[q].rightRow

C10_Witness ==
    /\ Done
    /\ Len(NonBlankLeftInOrder) >= 1
    /\ \E p, q \in (Len(NonBlankLeftInOrder) + 1)..Len(Rows) :
          /\ p < q
          /\ Rows[p].rightRow > Rows[q].rightRow
          /\ Rows[p].key # Rows[q].key

(* C11: a call is a deterministic function of its arguments: run again on   *)
(* the datasets and configuration of the caller's first run, after any      *)
(* other run, it ends as the first run did (it throws, or it returns equal  *)
(* rows and an equal summary); a call starts from an index in which no      *)
(* entry is consumed, whatever an earlier call left; and no step of a call  *)
(* changes the rows or the configuration it was given.                      *)
C11_DeterministicAndPure ==
    /\ [](phase = "repeat" /\ Ended =>
             /\ pc = firstCall[1].pc
             /\ returned = firstCall[1].returned)
    /\ [][pc = "call" /\ pc' = ScanPc(1) =>
             /\ rightBuckets' = buildBuckets(rightRows, config.right.keyColumns)
             /\ \A b \in 1..Len(rightBuckets') :
                    \A k \in 1..Len(rightBuckets'[b].list) : ~rightBuckets'[b].list[k].used]_vars
    /\ [][~Ended => inputs' = inputs]_vars

C11_Witness ==
    /\ phase = "repeat"
    /\ Done
    /\ \E r \in 1..Len(Rows) : Paired(Rows[r])
    /\ \E r \in 1..Len(Rows) : ResidualDuplicate(Rows[r])

ConsumedIn(list) == {list[k].row : k \in {h \in 1..Len(list) : list[h].used}}
ConsumedEntries == UNION {ConsumedIn(rightBuckets[b].list) : b \in 1..Len(rightBuckets)}

PairsOfRight(j) == {r \in 1..Len(results) : Paired(results[r]) /\ results[r].rightRow = j}

AmountCompared == Truthy(config.left.amountColumn) /\ Truthy(config.right.amountColumn)
DateCompared == Truthy(config.left.dateColumn) /\ Truthy(config.right.dateColumn)

LeftAmountOf(row) == parseAmount(Field(leftRows[row.leftRow], config.left.amountColumn))
RightAmountOf(row) == parseAmount(Field(rightRows[row.rightRow], config.right.amountColumn))
LeftDateOf(row) == toYmd(Field(leftRows[row.leftRow], config.left.dateColumn))
RightDateOf(row) == toYmd(Field(rightRows[row.rightRow], config.right.dateColumn))

(* C12: every consumed right row is the rightRow of exactly one matched or  *)
(* mismatched result row; when amounts are compared and the amount of       *)
(* either row of the pair is blank or unparseable, that row is mismatched   *)
(* and has the reason 'Amount missing or unparseable'; when dates are       *)
(* compared and either date is blank or unparseable, it is mismatched and   *)
(* has the reason 'Date missing or unparseable'.                            *)
C12_MissingValueIsMismatch ==
    /\ \A j \in ConsumedEntries : Cardinality(PairsOfRight(j)) = 1
    /\ \A r \in 1..Len(results) :
           Paired(results[r]) =>
               /\ (AmountCompared /\ (LeftAmountOf(results[r]).null \/ RightAmountOf(results[r]).null))
                      => /\ results[r].status = "mismatched"
                         /\ HasReason(results[r], "Amount missing or unparseable")
               /\ (DateCompared /\ (LeftDateOf(results[r]).null \/ RightDateOf(results[r]).null))
                      => /\ results[r].status = "mismatched"
                         /\ HasReason(results[r], "Date missing or unparseable")

C12_Witness ==
    /\ Done
    /\ AmountCompared /\ DateCompared
    /\ \E r \in 1..Len(Rows) :
           /\ Paired(Rows[r])
           /\ Trim(Field(leftRows[Rows[r].leftRow], config.left.dateColumn)) = <<>>
           /\ Trim(Field(rightRows[Rows[r].rightRow], config.right.dateColumn)) # <<>>
           /\ RightDateOf(Rows[r]).null
           /\ LeftAmountOf(Rows[r]).null /\ ~RightAmountOf(Rows[r]).null
           /\ Len(Rows[r].reasons) = 2

DateIso == <<"2","0","2","5","-","1","2","-","0","1">>
DateDayFirst == <<"0","1","/","1","2","/","2","0","2","5">>

AllRows == {leftRows[i] : i \in 1..Len(leftRows)} \cup {rightRows[j] : j \in 1..Len(rightRows)}

(* C13: the dates "2025-12-01" and "01/12/2025" are both normalized to      *)
(* "2025-12-01" (the second is read day first), and a matched or mismatched *)
(* row whose two rows hold these two dates has no date reason.              *)
C13_DayFirstDates ==
    /\ \A row \in AllRows :
           row.Date \in {DateIso, DateDayFirst} => toYmd(row.Date) = [null |-> FALSE, value |-> DateIso]
    /\ \A r \in 1..Len(results) :
           (/\ Paired(results[r])
            /\ DateCompared
            /\ {leftRows[results[r].leftRow].Date, rightRows[results[r].rightRow].Date}
                   = {DateIso, DateDayFirst})
           => ~\E k \in 1..Len(results[r].reasons) :
                   results[r].reasons[k].text \in {"Date differs", "Date missing or unparseable"}

\* the words of a value: its maximal runs of non-whitespace characters, in lower case
Words(value) ==
    SelectSeq(Split(ToLowerCase(value), {" ", "\t", "\n", "\r"}), LAMBDA w : w # <<>>)

SameWords(leftRow, rightRow) ==
    /\ Len(config.left.keyColumns) = Len(config.right.keyColumns)
    /\ \A k \in 1..Len(config.left.keyColumns) :
           Words(Field(leftRow, config.left.keyColumns[k]))
               = Words(Field(rightRow, config.right.keyColumns[k]))

OneKeyColumn == Len(config.left.keyColumns) = 1 /\ Len(config.right.keyColumns) = 1

(* C14: a left and a right row whose key column values differ only in       *)
(* letter case, in leading or trailing whitespace or in the length of       *)
(* internal whitespace runs (they have the same words) get the same         *)
(* composite key; with one key column rows with different words get         *)
(* different keys; and when the call returns, such a left row with a        *)
(* non-empty key is not missing_in_right, such a right row is not           *)
(* missing_in_left, and a single such left row and right row are paired in  *)
(* one matched or mismatched row.                                           *)
C14_KeyIgnoresCaseAndWhitespace ==
    \A i \in 1..Len(leftRows) : \A j \in 1..Len(rightRows) :
        /\ SameWords(leftRows[i], rightRows[j]) => LeftRowKey(i) = RightRowKey(j)
        /\ (OneKeyColumn /\ ~SameWords(leftRows[i], rightRows[j]))
               => LeftRowKey(i) # RightRowKey(j)
        /\ (Done /\ SameWords(leftRows[i], rightRows[j]) /\ i \in NonBlankLeft) =>
               /\ \A r \in RowsOfLeft(i) : Rows[r].status # "missing_in_right"
               /\ \A r \in RowsOfRight(j) : Rows[r].status # "missing_in_left"
               /\ (Len(leftRows) = 1 /\ Len(rightRows) = 1) =>
                      /\ Len(Rows) = 1
                      /\ Paired(Rows[1]) /\ Rows[1].leftRow = 1 /\ Rows[1].rightRow = 1

C14_Witness ==
    /\ Done
    /\ OneKeyColumn
    /\ \E r \in 1..Len(Rows) :
           /\ Paired(Rows[r])
           /\ leftRows[Rows[r].leftRow].Inv = <<"I","N","V","-","1"," ">>
           /\ rightRows[Rows[r].rightRow].Inv = <<"i","n","v","-","1">>
    /\ \E r \in 1..Len(Rows) :
           /\ Paired(Rows[r])
           /\ leftRows[Rows[r].leftRow].Inv = <<"I","n","v"," "," ","1">>
           /\ rightRows[Rows[r].rightRow].Inv = <<" ","i","n","v"," ","1">>

KeyColumnLists == {config.left.keyColumns, config.right.keyColumns}

Idempotent(key) == normalizeKeyPart(key) = key

SomeKeyPartBlank(row, keyColumns) ==
    \E k \in 1..Len(keyColumns) : Trim(Field(row, keyColumns[k])) = <<>>

(* C15 as stated: normalizing the composite key of any row under any list   *)
(* of key columns again yields the same key.                                *)
C15_CompositeKeyIdempotent ==
    \A row \in AllRows : \A keyColumns \in KeyColumnLists :
        Idempotent(normalizeKey(row, keyColumns))

(* C15 amended: normalizing a normalized key part again yields the same     *)
(* part; normalizing a composite key again yields the same key when there   *)
(* is at most one key column or no key part of the row is blank, and a      *)
(* different string when there are several key columns and some key part    *)
(* is blank.                                                                *)
C15_KeyPartIdempotent ==
    \A row \in AllRows : \A keyColumns \in KeyColumnLists :
        /\ \A k \in 1..Len(keyColumns) :
               Idempotent(normalizeKeyPart(Field(row, keyColumns[k])))
        /\ Idempotent(normalizeKey(row, keyColumns))
               <=> (Len(keyColumns) <= 1 \/ ~SomeKeyPartBlank(row, keyColumns))

C15_Witness ==
    /\ Done
    /\ Len(config.left.keyColumns) = 3
    /\ \E r \in 1..Len(Rows) : Paired(Rows[r]) /\ ~Idempotent(Rows[r].key)
    /\ \E r \in 1..Len(Rows) :
           /\ Rows[r].leftRow # 0
           /\ Idempotent(Rows[r].key)
           /\ ~SomeKeyPartBlank(leftRows[Rows[r].leftRow], config.left.keyColumns)

MissingInRight(row) ==
    /\ row.status = "missing_in_right"
    /\ row.leftRow # 0
    /\ row.rightRow = 0
    /\ row.reasons = <<Text("No matching key in right dataset")>>

(* C16: when the call returns, a left row with a non-empty key is reported  *)
(* missing_in_right exactly when no right row has its composite key; a      *)
(* missing_in_right row carries that left row, no right row and the single  *)
(* reason 'No matching key in right dataset'; and with an empty right       *)
(* dataset every left row with a non-empty key is missing_in_right and the  *)
(* four other status counts are 0.                                          *)
C16_MissingInRightIffNoRightKey ==
    Done =>
        /\ \A i \in NonBlankLeft :
               (\E r \in RowsOfLeft(i) : Rows[r].status = "missing_in_right")
                   <=> RightRowsWithKey(LeftRowKey(i)) = {}
        /\ \A r \in 1..Len(Rows) :
               Rows[r].status = "missing_in_right" =>
                   /\ MissingInRight(Rows[r])
                   /\ Rows[r].leftRow \in NonBlankLeft
                   /\ Rows[r].key = LeftRowKey(Rows[r].leftRow)
        /\ rightRows = <<>> =>
               /\ \A i \in NonBlankLeft : \E r \in RowsOfLeft(i) : MissingInRight(Rows[r])
               /\ returned[1].summary.missingInRight = Cardinality(NonBlankLeft)
               /\ returned[1].summary.matched = 0
               /\ returned[1].summary.mismatched = 0
               /\ returned[1].summary.missingInLeft = 0
               /\ returned[1].summary.duplicateKey = 0

C16_Witness ==
    /\ Done
    /\ rightRows # <<>>
    /\ \E r \in 1..Len(Rows) : MissingInRight(Rows[r])
    /\ \E r \in 1..Len(Rows) : Rows[r].leftRow # 0 /\ Rows[r].rightRow # 0
    /\ Cardinality(NonBlankLeft) < Len(leftRows)

\* the position of left row i among the left rows of its key, in input order
LeftRank(i) == Cardinality({h \in NonBlankLeft : h <= i /\ LeftRowKey(h) = LeftRowKey(i)})

\* the n-th right row of a key, in input order
NthRightRowWithKey(key, n) ==
    CHOOSE j \in RightRowsWithKey(key) :
        Cardinality({h \in RightRowsWithKey(key) : h <= j}) = n

(* C17: when the call returns, for every key with n right rows the i-th     *)
(* left row of that key (in input order), for i <= n, is paired in a        *)
(* matched or mismatched row with the i-th right row of that key; and with  *)
(* one left row and two right rows of one key the result is exactly one     *)
(* matched or mismatched row pairing the first right row, followed by one   *)
(* duplicate_key row that carries only the second right row.                *)
C17_FirstUnconsumedWins ==
    Done =>
        /\ \A i \in NonBlankLeft :
               LeftRank(i) <= Cardinality(RightRowsWithKey(LeftRowKey(i))) =>
                   \E r \in RowsOfLeft(i) :
                       /\ Paired(Rows[r])
                       /\ Rows[r].rightRow = NthRightRowWithKey(LeftRowKey(i), LeftRank(i))
        /\ (/\ Len(leftRows) = 1 /\ Len(rightRows) = 2
            /\ LeftRowKey(1) # <<>>
            /\ RightRowKey(1) = LeftRowKey(1) /\ RightRowKey(2) = LeftRowKey(1))
           => /\ Len(Rows) = 2
              /\ Paired(Rows[1]) /\ Rows[1].leftRow = 1 /\ Rows[1].rightRow = 1
              /\ ResidualDuplicate(Rows[2]) /\ Rows[2].rightRow = 2

C17_Witness ==
    /\ Done
    /\ \E i \in NonBlankLeft :
           /\ LeftRank(i) = 2
           /\ Cardinality(RightRowsWithKey(LeftRowKey(i))) = 3
           /\ \E r \in RowsOfLeft(i) : Paired(Rows[r]) /\ Rows[r].rightRow = 2

\* the left scan is at a row whose key has a right bucket with every entry consumed
AtExhaustedBucket ==
    /\ pc = "scan"
    /\ LeftKey # <<>>
    /\ \E b \in 1..Len(rightBuckets) :
           /\ rightBuckets[b].key = LeftKey
           /\ \A k \in 1..Len(rightBuckets[b].list) : rightBuckets[b].list[k].used

ExhaustedBucketRow ==
    RowResult("duplicate_key", LeftKey, leftIndex, MapGet(rightBuckets, LeftKey)[1].row,
              <<Text("Multiple rows share this key in the right dataset")>>)

(* C18: the step of the left scan at a row whose key has a right bucket     *)
(* with every entry consumed appends one duplicate_key row carrying the     *)
(* left row, the row of the bucket's first entry and the reason 'Multiple   *)
(* rows share this key in the right dataset', adds 1 to duplicateKey, and   *)
(* changes no consumed flag and no other counter.                           *)
C18_ExhaustedBucketStep ==
    [][AtExhaustedBucket =>
          /\ results' = Append(results, ExhaustedBucketRow)
          /\ duplicateKey' = duplicateKey + 1
          /\ rightBuckets' = rightBuckets
          /\ matched' = matched
          /\ mismatched' = mismatched
          /\ missingInRight' = missingInRight
          /\ missingInLeft' = missingInLeft]_vars

C18_Witness ==
    /\ pc = "residual"
    /\ residualBucket = 1 /\ residualItem = 1
    /\ results # <<>>
    /\ LeftBearingDuplicate(results[Len(results)])
    /\ results[Len(results)].leftRow = leftIndex - 1
    /\ Cardinality(RightRowsWithKey(results[Len(results)].key)) = 2
    /\ results[Len(results)].rightRow = FirstRightRowWithKey(results[Len(results)].key)
    /\ duplicateKey = 1

\* 1 for the duplicate-key reason, 2 for an amount reason, 3 for a date reason
ReasonKind(reason) ==
    IF reason.text = "Duplicate key in right dataset (multiple rows)" THEN 1
    ELSE IF reason.text \in {"Amount missing or unparseable", "Amount differs by"} THEN 2
    ELSE IF reason.text \in {"Date missing or unparseable", "Date differs"} THEN 3
    ELSE 0

(* C19: the reasons of a matched or mismatched row are, in this order, at   *)
(* most one duplicate-key reason, at most one amount reason and at most one *)
(* date reason, and nothing else; the row is matched exactly when its       *)
(* reasons list is empty and mismatched otherwise.                          *)
C19_ReasonsOrderAndStatus ==
    \A r \in 1..Len(results) :
        Paired(results[r]) =>
            /\ \A k \in 1..Len(results[r].reasons) : ReasonKind(results[r].reasons[k]) \in 1..3
            /\ \A k \in 1..(Len(results[r].reasons) - 1) :
                   ReasonKind(results[r].reasons[k]) < ReasonKind(results[r].reasons[k + 1])
            /\ results[r].status = "matched" <=> results[r].reasons = <<>>
            /\ results[r].status = "mismatched" <=> results[r].reasons # <<>>

C19_Witness ==
    /\ Done
    /\ \E r \in 1..Len(Rows) :
           /\ Rows[r].status = "mismatched"
           /\ Len(Rows[r].reasons) = 3
           /\ Rows[r].reasons[2].text = "Amount differs by"
           /\ Rows[r].reasons[3].text = "Date differs"

Residuals(j) == {r \in 1..Len(Rows) : Rows[r].leftRow = 0 /\ Rows[r].rightRow = j}

(* C20: when the call returns, every right row with a non-empty key that    *)
(* was not consumed is the rightRow of exactly one result row without a     *)
(* left row, and a consumed one of none; that row has the right row's key   *)
(* and is duplicate_key with the single reason 'Duplicate key in right      *)
(* dataset (multiple rows)' if several right rows have the key, otherwise   *)
(* missing_in_left with the single reason 'No matching key in left          *)
(* dataset'; so no right row of a shared key is reported missing_in_left.   *)
C20_ResidualRows ==
    Done =>
        /\ \A j \in NonBlankRight :
               /\ Cardinality(Residuals(j)) = (IF j \in ConsumedEntries THEN 0 ELSE 1)
               /\ \A r \in Residuals(j) :
                      /\ Rows[r].key = RightRowKey(j)
                      /\ IF Cardinality(RightRowsWithKey(RightRowKey(j))) > 1
                         THEN /\ Rows[r].status = "duplicate_key"
                              /\ Rows[r].reasons
                                     = <<Text("Duplicate key in right dataset (multiple rows)")>>
                         ELSE /\ Rows[r].status = "missing_in_left"
                              /\ Rows[r].reasons = <<Text("No matching key in left dataset")>>
        /\ \A r \in 1..Len(Rows) :
               Rows[r].status = "missing_in_left" =>
                   /\ Rows[r].leftRow = 0
                   /\ Cardinality(RightRowsWithKey(Rows[r].key)) = 1

C20_Witness ==
    /\ Done
    /\ ConsumedEntries # {}
    /\ \E r \in 1..Len(Rows) : ResidualDuplicate(Rows[r])
    /\ \E r \in 1..Len(Rows) : Rows[r].status = "missing_in_left"
    /\ Cardinality(NonBlankRight) < Len(rightRows)

\* a field value without any digit holds no number
HoldsNoNumber(value) == \A k \in 1..Len(value) : ~IsDigit(value[k])

(* C21: amount parsing returns null for every value that holds no number    *)
(* (a blank value, a value of only currency symbols, commas and whitespace  *)
(* such as "$" or ",", and text such as "N/A"), and a matched or mismatched *)
(* row whose compared amount holds no number on either side has the reason  *)
(* 'Amount missing or unparseable'.                                         *)
C21_NoNumberIsNull ==
    /\ \A row \in AllRows : HoldsNoNumber(row.Amount) => parseAmount(row.Amount).null
    /\ \A r \in 1..Len(results) :
           (/\ Paired(results[r])
            /\ AmountCompared
            /\ \/ HoldsNoNumber(Field(leftRows[results[r].leftRow], config.left.amountColumn))
               \/ HoldsNoNumber(Field(rightRows[results[r].rightRow], config.right.amountColumn)))
           => HasReason(results[r], "Amount missing or unparseable")

LeftRowsWithKey(key) == {i \in 1..Len(leftRows) : LeftRowKey(i) = key}

PairsWithKey(key) == {r \in 1..Len(results) : Paired(results[r]) /\ results[r].key = key}

NonBlankKeys == ({LeftRowKey(i) : i \in 1..Len(leftRows)}
                    \cup {RightRowKey(j) : j \in 1..Len(rightRows)}) \ {<<>>}

Min(a, b) == IF a <= b THEN a ELSE b

(* C22: at every point of the call no right row is the rightRow of two      *)
(* matched or mismatched rows and no left row the leftRow of two; the       *)
(* number of matched and mismatched rows of a key never exceeds the smaller *)
(* of the number of left rows and the number of right rows with that key,   *)
(* and equals it once the left scan has ended.                              *)
C22_OneToOne ==
    /\ pc \in {"scan", "residual", "done"} =>
           /\ \A j \in 1..Len(rightRows) : Cardinality(PairsOfRight(j)) <= 1
           /\ \A i \in 1..Len(leftRows) :
                  Cardinality({r \in 1..Len(results) :
                                  Paired(results[r]) /\ results[r].leftRow = i}) <= 1
           /\ \A key \in NonBlankKeys :
                  Cardinality(PairsWithKey(key))
                      <= Min(Cardinality(LeftRowsWithKey(key)),
                             Cardinality(RightRowsWithKey(key)))
    /\ pc \in {"residual", "done"} =>
           \A key \in NonBlankKeys :
               Cardinality(PairsWithKey(key))
                   = Min(Cardinality(LeftRowsWithKey(key)), Cardinality(RightRowsWithKey(key)))

C22_Witness ==
    /\ Done
    /\ \E key \in NonBlankKeys :
           /\ Cardinality(LeftRowsWithKey(key)) = 3
           /\ Cardinality(RightRowsWithKey(key)) = 2
           /\ Cardinality(PairsWithKey(key)) = 2

RowsWithStatus(status) == {r \in 1..Len(Rows) : Rows[r].status = status}

(* C23: in a returned result each of summary.matched, mismatched,           *)
(* missingInLeft, missingInRight and duplicateKey is the number of rows     *)
(* with that status, every row has one of the five statuses, the five chip  *)
(* counts add up to the count of the 'All' chip, which is the number of     *)
(* rows, and summary.leftCount and rightCount are the lengths of the two    *)
(* inputs, rows with an empty key included.                                 *)
C23_SummaryCountsRows ==
    Done =>
        /\ returned[1].summary.matched = Cardinality(RowsWithStatus("matched"))
        /\ returned[1].summary.mismatched = Cardinality(RowsWithStatus("mismatched"))
        /\ returned[1].summary.missingInLeft = Cardinality(RowsWithStatus("missing_in_left"))
        /\ returned[1].summary.missingInRight = Cardinality(RowsWithStatus("missing_in_right"))
        /\ returned[1].summary.duplicateKey = Cardinality(RowsWithStatus("duplicate_key"))
        /\ \A r \in 1..Len(Rows) :
               Rows[r].status \in {"matched", "mismatched", "missing_in_left",
                                   "missing_in_right", "duplicate_key"}
        /\ filterChips[1].count = Len(Rows)
        /\ filterChips[2].count + filterChips[3].count + filterChips[4].count
               + filterChips[5].count + filterChips[6].count = filterChips[1].count
        /\ returned[1].summary.leftCount = Len(leftRows)
        /\ returned[1].summary.rightCount = Len(rightRows)

C23_Witness ==
    /\ Done
    /\ Cardinality(NonBlankLeft) < Len(leftRows)
    /\ Cardinality(NonBlankRight) < Len(rightRows)
    /\ RowsWithStatus("matched") # {}
    /\ RowsWithStatus("missing_in_left") # {}
    /\ filterChips[1].count >= 2

\* the rows of the two datasets, each with the key columns of its side
KeyedRows ==
    {[row |-> leftRows[i], keyColumns |-> config.left.keyColumns] : i \in 1..Len(leftRows)}
        \cup {[row |-> rightRows[j], keyColumns |-> config.right.keyColumns] :
                  j \in 1..Len(rightRows)}

KeyOf(keyed) == normalizeKey(keyed.row, keyed.keyColumns)

KeyParts(keyed) ==
    [k \in 1..Len(keyed.keyColumns) |-> normalizeKeyPart(Field(keyed.row, keyed.keyColumns[k]))]

HasBar(keyed) ==
    \E k \in 1..Len(KeyParts(keyed)) : \E c \in 1..Len(KeyParts(keyed)[k]) :
        KeyParts(keyed)[k][c] = "|"

(* C24 as stated: two rows get the same composite key only if they have the *)
(* same number of key columns and equal normalized values in every key      *)
(* position, also when values contain the separator.                        *)
C24_KeyInjective ==
    \A x \in KeyedRows : \A y \in KeyedRows :
        KeyOf(x) = KeyOf(y) => KeyParts(x) = KeyParts(y)

(* C24 amended: two rows none of whose normalized key parts contains the    *)
(* character "|" get the same composite key exactly when they have the same *)
(* number of key columns and equal normalized values in every key position. *)
C24_KeyInjectiveWithoutBar ==
    \A x \in KeyedRows : \A y \in KeyedRows :
        (~HasBar(x) /\ ~HasBar(y)) => (KeyOf(x) = KeyOf(y) <=> KeyParts(x) = KeyParts(y))

C24_Witness ==
    /\ Done
    /\ Len(config.left.keyColumns) = 2 /\ Len(config.right.keyColumns) = 1
    /\ \E x \in KeyedRows : \E y \in KeyedRows :
           /\ ~HasBar(x) /\ ~HasBar(y)
           /\ Len(KeyParts(x)) # Len(KeyParts(y))
           /\ KeyParts(x)[1] = KeyParts(y)[1] /\ KeyParts(x)[1] # <<>>
    /\ \E r \in 1..Len(Rows) : Rows[r].status = "missing_in_right"
    /\ \E r \in 1..Len(Rows) : Rows[r].status = "missing_in_left"

(* C25: in a returned result no key has both a missing_in_right row and a   *)
(* missing_in_left row, a missing_in_left row's key is the key of no left   *)
(* row, and a missing_in_right row's key is the key of no right row.        *)
C25_NotMissingOnBothSides ==
    Done =>
        /\ \A r \in RowsWithStatus("missing_in_right") :
               \A q \in RowsWithStatus("missing_in_left") : Rows[r].key # Rows[q].key
        /\ \A q \in RowsWithStatus("missing_in_left") : LeftRowsWithKey(Rows[q].key) = {}
        /\ \A r \in RowsWithStatus("missing_in_right") : RightRowsWithKey(Rows[r].key) = {}

C25_Witness ==
    /\ Done
    /\ RowsWithStatus("missing_in_right") # {}
    /\ RowsWithStatus("missing_in_left") # {}
    /\ \E r \in 1..Len(Rows) : Paired(Rows[r])

HeadersOf(dataset) ==
    IF dataset = NoDataset THEN {}
    ELSE {dataset[1].headers[k] : k \in 1..Len(dataset[1].headers)}

ColumnsOf(keyColumns) == {keyColumns[k] : k \in 1..Len(keyColumns)}

(* C26: after any sequence of dataset loads and key column toggles each     *)
(* side's config.keyColumns holds only headers of the dataset currently     *)
(* loaded for that side, and a call started by Run reconciliation computes  *)
(* no key from a column its dataset does not have.                          *)
C26_KeyColumnsAreHeaders ==
    /\ ColumnsOf(config.left.keyColumns) \subseteq HeadersOf(leftDataset)
    /\ ColumnsOf(config.right.keyColumns) \subseteq HeadersOf(rightDataset)

====
